---- MODULE Spec2Model ----
(***************************************************************************)
(* KredMitra: the orchestrator's application pipeline and agent client     *)
(* (backend/orchestrator-api/routes/application_routes.py), its            *)
(* /api/v1/orchestrate route (backend/orchestrator-api/app.py), and the    *)
(* audit cache of the blockchain logger agent                              *)
(* (backend/agents/agent_blockchain_logger/main.py), one request at a time *)
(* and as its threaded server runs it.                                     *)
(*                                                                         *)
(* Python dicts are modelled as TLA+ functions whose DOMAIN is the set of  *)
(* keys that are present: d.get(k, default) is Get(d, k, default), and a   *)
(* d[k] on a missing key is the KeyError branch of the step that reads it. *)
(* Money amounts are integers; the amounts drawn are multiples of 5, so    *)
(* that amount * 0.8 and amount * 0.6 are integers too.  Interest rates    *)
(* are in tenths of a percent (8.5 is 85, 12.0 is 120, 16.0 is 160).       *)
(***************************************************************************)
EXTENDS Integers, Sequences, FiniteSets, TLC

VARIABLES
    pc,                \* position of the request in submit_application / process_application_pipeline
    now,               \* the orchestrator's clock (datetime.utcnow), in seconds
    request,           \* the JSON body of the POST /applications request
    data,              \* submit_application's data: the body plus the processing metadata
    feature_result,    \* process_application_pipeline's local feature_result
    fraud_result,      \* its local fraud_result
    scoring_result,    \* its local scoring_result
    pipeline_results,  \* its local pipeline_results
    returned,          \* the value process_application_pipeline returned
    response,          \* the HTTP response of submit_application
    calls,             \* the requests.post calls issued by call_agent, in order, and how each ended
    local_cache,       \* BlockchainLogger.local_cache
    ledger,            \* the records the durable sink accepted, in order
    log_clock,         \* the logger's clock: the timestamp of the last record created
    last_log,          \* what the last logging request did
    sync_passes,       \* the sync passes run in a row since the last logging request
    appended,          \* every record _store_in_cache appended, in order
    eng,               \* the (score, amount) pair under test and make_loan_decision's result
    client,            \* one use of the agent client: call_agent or POST /api/v1/orchestrate
    threads,           \* the logger's server threads: where each is in its request, and its locals
    quota,             \* the requests each server thread may still take
    hashed,            \* two payloads and the audit records _create_transaction_record makes of them
    submissions        \* the data of the submissions submit_application accepted, in order

pipelineVars == <<pc, now, request, data, feature_result, fraud_result, scoring_result,
                  pipeline_results, returned, response, calls>>
loggerVars == <<local_cache, ledger, log_clock, last_log, sync_passes, appended>>
serverVars == <<threads, quota>>
auxVars == <<hashed, submissions>>
vars == <<pipelineVars, loggerVars, eng, client, serverVars, auxVars>>

-----------------------------------------------------------------------------
(* Bounds of the model *)

MaxAmountK == 2        \* requested amounts are 5 * k for k in -MaxAmountK..MaxAmountK
MaxScore == 900        \* the decision engine is checked on every score in 0..MaxScore
MaxClock == 1          \* the orchestrator's clock runs from 0 to MaxClock
MaxLogs == 3           \* logging requests in a behaviour of the logger
MaxSyncs == 2          \* sync passes in a behaviour of the logger
MaxAppends == 1002     \* appends in a behaviour of the cache alone
MaxSmallCache == 2     \* records in the cache when the threaded server starts below capacity
MaxStepped == 1        \* iterations of a sync pass that other threads can interleave with
MaxValues == 2         \* the values a field of a hashed payload is drawn from are 1..MaxValues
MaxSubmissions == 2    \* submissions accepted in a behaviour of the submission endpoint

-----------------------------------------------------------------------------
(* Python dict helpers *)

Has(d, k) == k \in DOMAIN d

Get(d, k, default) == IF k \in DOMAIN d THEN d[k] ELSE default

Put(d, k, v) == [x \in (DOMAIN d) \cup {k} |-> IF x = k THEN v ELSE d[x]]

EmptyDict == [x \in {} |-> 0]

Min(a, b) == IF a <= b THEN a ELSE b

\* amount * 0.8 is Times(amount, 8); amount * 0.6 is Times(amount, 6)
Times(amount, tenths) == (amount * tenths) \div 10

-----------------------------------------------------------------------------
(* Decision engine *)

\* the mutant reads the comparisons the wrong way round (<= for >=)
decision_tier_inverted(credit_score) ==
    IF credit_score <= 750 THEN 1
    ELSE IF credit_score <= 650 THEN 2
    ELSE IF credit_score <= 550 THEN 3
    ELSE 4

\* the mutant puts the boundary scores into the lower band (> for >=)
decision_tier_strict(credit_score) ==
    IF credit_score > 750 THEN 1
    ELSE IF credit_score > 650 THEN 2
    ELSE IF credit_score > 550 THEN 3
    ELSE 4

\* "Decision logic": which branch of the if / elif chain a score takes
decision_tier(credit_score) ==
    IF credit_score >= 750 THEN 1
    ELSE IF credit_score >= 650 THEN 2
    ELSE IF credit_score >= 550 THEN 3
    ELSE 4

make_loan_decision(credit_score, risk_level, application_data) ==
    LET loan_amount_requested == Get(application_data, "loan_amount", 0)
        tier == decision_tier(credit_score)
    IN  IF tier = 1 THEN
            [decision |-> "approved",
             credit_score |-> credit_score,
             risk_level |-> risk_level,
             approved_amount |-> loan_amount_requested,
             interest_rate |-> 85,
             conditions |-> <<>>]
        ELSE IF tier = 2 THEN
            [decision |-> "approved",
             credit_score |-> credit_score,
             risk_level |-> risk_level,
             approved_amount |-> Min(loan_amount_requested, Times(loan_amount_requested, 8)),
             interest_rate |-> 120,
             conditions |-> <<"Salary certificate required", "Co-signer recommended">>]
        ELSE IF tier = 3 THEN
            [decision |-> "conditional_approval",
             credit_score |-> credit_score,
             risk_level |-> risk_level,
             approved_amount |-> Min(loan_amount_requested, Times(loan_amount_requested, 6)),
             interest_rate |-> 160,
             conditions |-> <<"Higher down payment required", "Co-signer mandatory",
                              "Additional documentation needed">>]
        ELSE
            [decision |-> "rejected",
             credit_score |-> credit_score,
             risk_level |-> risk_level,
             approved_amount |-> 0,
             interest_rate |-> 0,
             conditions |-> <<"Credit score too low", "Consider credit improvement measures">>]

-----------------------------------------------------------------------------
(* Agent client *)

agent_ports ==
    [fraud_detector |-> 5001, feature_extractor |-> 5002, scoring |-> 5003,
     rag_coach |-> 5004, blockchain_logger |-> 5005]

create_fallback_result(agent_type, d) ==
    IF agent_type = "fraud_detector" THEN
        [is_fraud |-> FALSE, fraud_probability |-> 10, risk_level |-> "low",
         explanation |-> "Fallback: Basic fraud check passed"]
    ELSE IF agent_type = "feature_extractor" THEN
        [features |-> [demographic |-> [age |-> Get(d, "age", 30)],
                       financial |-> [monthly_income |-> Get(d, "monthly_income", 50000)],
                       quality |-> [completeness_score |-> 60]]]
    ELSE IF agent_type = "scoring" THEN
        [credit_score |-> 600, credit_rating |-> "fair",
         risk_assessment |-> [risk_level |-> "medium"], fallback |-> TRUE]
    ELSE IF agent_type = "blockchain_logger" THEN
        [success |-> TRUE, storage |-> "fallback_cache",
         note |-> "Stored locally, will sync when blockchain is available"]
    ELSE
        [fallback |-> TRUE, message |-> "Service unavailable"]

\* What requests.post can do: answer (a status code and, for 200, a JSON body),
\* fail to connect, or run into the 30 s timeout.
NetResponse(body) == [kind |-> "response", status_code |-> 200, json |-> body]
NetStatus(code) == [kind |-> "response", status_code |-> code]
NetConnectionError == [kind |-> "connection_error"]
NetTimeout == [kind |-> "timeout"]

\* the mutant lets every name through to requests.post
IssuesRequestAlways(agent_type) == TRUE

\* "if agent_type not in agent_ports: return ...": requests.post is reached
\* for the names of the registry only
IssuesRequest(agent_type) == agent_type \in DOMAIN agent_ports

\* the requests.post calls one call_agent issues
agent_posts(agent_type, d) ==
    IF IssuesRequest(agent_type) THEN <<[agent |-> agent_type, payload |-> d]>> ELSE <<>>

\* the mutant answers a timeout the way a refused connection is answered
call_agent_timeout_defaulted(agent_type, d, net) ==
    IF ~IssuesRequest(agent_type) THEN
        [success |-> FALSE, error |-> "Unknown agent type"]
    ELSE IF net.kind = "response" THEN
        IF net.status_code = 200 THEN net.json
        ELSE [success |-> FALSE, error |-> "Agent returned status",
              agent_response |-> net.status_code]
    ELSE [success |-> FALSE, error |-> "Agent service is not available",
          fallback_result |-> create_fallback_result(agent_type, d)]

call_agent(agent_type, d, net) ==
    IF ~IssuesRequest(agent_type) THEN
        [success |-> FALSE, error |-> "Unknown agent type"]
    ELSE IF net.kind = "response" THEN
        IF net.status_code = 200 THEN net.json
        ELSE [success |-> FALSE, error |-> "Agent returned status",
              agent_response |-> net.status_code]
    ELSE IF net.kind = "connection_error" THEN
        [success |-> FALSE, error |-> "Agent service is not available",
         fallback_result |-> create_fallback_result(agent_type, d)]
    ELSE
        [success |-> FALSE, error |-> "Agent request timed out"]

\* dict.get('success') as a condition: a missing key is None, which is falsy
Succeeded(result) == Get(result, "success", FALSE)

-----------------------------------------------------------------------------
(* The agents, seen from the orchestrator: the bodies their /process routes
   answer with status 200, and the other ways a call can end *)

FeatureSets ==
    {[demographic |-> [age |-> a], financial |-> [monthly_income |-> 120000],
      quality |-> [completeness_score |-> 90]] : a \in {30, 45}}

\* CreditScorer._assess_risk
assess_risk_level(score) ==
    IF score >= 700 THEN "low"
    ELSE IF score >= 600 THEN "medium"
    ELSE IF score >= 500 THEN "high"
    ELSE "very_high"

PipelineScores == {549, 550, 649, 650, 749, 750, 780}

FraudProbabilities == {10, 92}    \* in percent

\* feature extractor, POST /process; the last body is a 200 answer that lacks
\* 'features', as a service of another version may give
FeatureExtractorBodies ==
    {[success |-> TRUE, result |-> [features |-> f], service |-> "feature_extractor"]
        : f \in FeatureSets}
    \cup {[success |-> TRUE, result |-> [error |-> "malformed"]]}

\* fraud detector, POST /process; the last body is a 200 answer without 'result'
FraudDetectorBodies ==
    {[success |-> TRUE,
      result |-> [is_fraud |-> p > 50, fraud_probability |-> p],
      service |-> "fraud_detector"] : p \in FraudProbabilities}
    \cup {[success |-> TRUE, service |-> "fraud_detector"]}

\* credit scoring, POST /process; the last body is what calculate_credit_score
\* answers from its except clause: a score of 0 and no risk_assessment
ScoringBodies ==
    {[success |-> TRUE,
      result |-> [credit_score |-> s, risk_assessment |-> [risk_level |-> assess_risk_level(s)]],
      service |-> "credit_scoring"] : s \in PipelineScores}
    \cup {[success |-> TRUE,
           result |-> [credit_score |-> 0, credit_rating |-> "unknown", error |-> "error"],
           service |-> "credit_scoring"]}

\* blockchain logger, POST /process
BlockchainLoggerBodies ==
    {[success |-> TRUE, result |-> [success |-> TRUE, storage |-> st],
      service |-> "blockchain_logger"] : st \in {"blockchain", "cache"}}

AgentBodies(agent_type) ==
    IF agent_type = "feature_extractor" THEN FeatureExtractorBodies
    ELSE IF agent_type = "fraud_detector" THEN FraudDetectorBodies
    ELSE IF agent_type = "scoring" THEN ScoringBodies
    ELSE BlockchainLoggerBodies

NetOutcomes(agent_type) ==
    {NetResponse(b) : b \in AgentBodies(agent_type)}
    \cup {NetStatus(500), NetConnectionError, NetTimeout}

-----------------------------------------------------------------------------
(* Requests *)

Applicants == {"A1", "A2"}

Amounts == {5 * k : k \in (0 - MaxAmountK)..MaxAmountK}

required_fields == <<"applicant_id", "personal_info", "financial_info">>

RequestKeys == {"applicant_id", "personal_info", "financial_info", "loan_amount", "age"}

Body(keys, applicant, amount) ==
    [k \in keys |-> CASE k = "applicant_id" -> applicant
                      [] k = "loan_amount" -> amount
                      [] k = "age" -> 45
                      [] OTHER -> "info"]

Requests ==
    {Body(keys, a, amt) : keys \in SUBSET RequestKeys, a \in Applicants, amt \in Amounts}

\* the mutant checks the first required field only
FirstMissingApplicantOnly(d) == IF Has(d, required_fields[1]) THEN 0 ELSE 1

\* the first required field the body lacks, 0 when it has them all
FirstMissing(d) ==
    IF \A i \in 1..Len(required_fields) : Has(d, required_fields[i]) THEN 0
    ELSE CHOOSE i \in 1..Len(required_fields) :
            /\ ~Has(d, required_fields[i])
            /\ \A j \in 1..(i - 1) : Has(d, required_fields[j])

-----------------------------------------------------------------------------
(* submit_application and process_application_pipeline, one action per stage *)

\* a local that has not been assigned yet
Unset == [unset |-> TRUE]

\* the mutant runs credit scoring before the fraud check
stage_after_swapped(stage) ==
    CASE stage = "feature_extraction" -> "credit_scoring"
      [] stage = "credit_scoring" -> "fraud_detection"
      [] stage = "fraud_detection" -> "final_decision"
      [] stage = "final_decision" -> "blockchain_logging"

\* the order of the steps in process_application_pipeline's body
stage_after(stage) ==
    CASE stage = "feature_extraction" -> "fraud_detection"
      [] stage = "fraud_detection" -> "credit_scoring"
      [] stage = "credit_scoring" -> "final_decision"
      [] stage = "final_decision" -> "blockchain_logging"

\* the mutant hands the applicant's data to every agent
stage_payload_raw(agent_type, d, features) == d

\* what each stage passes to call_agent: the scoring agent gets the extracted
\* features, the feature extractor and the fraud detector get data
stage_payload(agent_type, d, features) ==
    IF agent_type = "scoring" THEN features ELSE d

\* the mutant lets the clause swallow nothing: the exception leaves the function
RaisePropagates(e) ==
    /\ returned' = [exception |-> e]
    /\ pc' = "crashed"

\* the mutant treats the audit call like the calls before it: a failure of it
\* ends the run in an error result
logged_results_checked(results, blockchain_result) ==
    IF Get(blockchain_result, "success", FALSE)
    THEN [x \in (DOMAIN results) \cup {"blockchain_logging"} |->
            IF x = "blockchain_logging" THEN blockchain_result ELSE results[x]]
    ELSE [error |-> "Blockchain logging failed", stage |-> "blockchain_logging"]

\* "pipeline_results['blockchain_logging'] = blockchain_result; return
\* pipeline_results": the outcome of the audit call is stored, never tested
logged_results(results, blockchain_result) ==
    [x \in (DOMAIN results) \cup {"blockchain_logging"} |->
        IF x = "blockchain_logging" THEN blockchain_result ELSE results[x]]

PipelineInit ==
    /\ pc = "idle"
    /\ now = 0
    /\ request \in Requests
    /\ data = Unset
    /\ feature_result = Unset
    /\ fraud_result = Unset
    /\ scoring_result = Unset
    /\ pipeline_results = EmptyDict
    /\ returned = Unset
    /\ response = Unset
    /\ calls = <<>>

\* the clock advances while the request is on its way
Tick ==
    /\ UNCHANGED <<loggerVars, eng, client, serverVars, auxVars>>
    /\ pc = "idle"
    /\ now < MaxClock
    /\ now' = now + 1
    /\ UNCHANGED <<pc, request, data, feature_result, fraud_result, scoring_result,
                   pipeline_results, returned, response, calls>>

\* process_application_pipeline returns value v
Return(v) ==
    /\ returned' = v
    /\ pc' = "done"

\* the except clause of process_application_pipeline
Raise(e) == Return([error |-> e, stage |-> "pipeline"])

\* f"APP_{datetime.utcnow().strftime('%Y%m%d_%H%M%S')}_{data['applicant_id']}":
\* the clock's reading in whole seconds and the applicant id
application_id(clock, applicant_id) == <<"APP", clock, applicant_id>>

\* "Add processing metadata"
with_processing_metadata(body, clock) ==
    Put(Put(Put(body,
        "application_id", application_id(clock, body["applicant_id"])),
        "submitted_at", clock),
        "status", "processing")

\* submit_application up to its call of process_application_pipeline
SubmitApplication ==
    /\ UNCHANGED <<loggerVars, eng, client, serverVars, auxVars>>
    /\ pc = "idle"
    /\ IF DOMAIN request = {} THEN
            /\ response' = [status |-> 400, error |-> "No application data provided"]
            /\ pc' = "responded"
            /\ data' = data
       ELSE IF FirstMissing(request) # 0 THEN
            /\ response' = [status |-> 400, error |-> "Missing required field",
                            field |-> required_fields[FirstMissing(request)]]
            /\ pc' = "responded"
            /\ data' = data
       ELSE /\ data' = with_processing_metadata(request, now)
            /\ pc' = "feature_extraction"
            /\ response' = response
    /\ UNCHANGED <<now, request, feature_result, fraud_result, scoring_result,
                   pipeline_results, returned, calls>>

\* Step 1: Feature Extraction
StepFeatureExtraction ==
    /\ UNCHANGED <<loggerVars, eng, client, serverVars, auxVars>>
    /\ pc = "feature_extraction"
    /\ \E net \in NetOutcomes("feature_extractor") :
        LET payload == stage_payload("feature_extractor", data, EmptyDict)
            r == call_agent("feature_extractor", payload, net)
        IN  /\ feature_result' = r
            /\ calls' = Append(calls, [agent |-> "feature_extractor", payload |-> payload, net |-> net])
            /\ pipeline_results' = Put(pipeline_results, "feature_extraction", r)
            /\ IF ~Succeeded(r)
               THEN Return([error |-> "Feature extraction failed", stage |-> "feature_extraction"])
               ELSE pc' = stage_after("feature_extraction") /\ returned' = returned
    /\ UNCHANGED <<now, request, data, fraud_result, scoring_result, response>>

\* the mutant takes a fraud detector that could not be reached for a fraud verdict
high_fraud_risk_or_unreachable(fraud) ==
    \/ Has(fraud, "fallback_result")
    \/ Succeeded(fraud) /\ Get(fraud.result, "is_fraud", FALSE)

\* the mutant reads the verdict under a key the fraud agent does not set
high_fraud_risk_wrong_key(fraud) ==
    Succeeded(fraud) /\ Get(fraud.result, "fraud", FALSE)

\* "fraud_result.get('success') and fraud_result['result'].get('is_fraud')",
\* for a fraud_result that has its 'result'
high_fraud_risk(fraud) ==
    Succeeded(fraud) /\ Get(fraud.result, "is_fraud", FALSE)

\* Step 2: Fraud Detection
StepFraudDetection ==
    /\ UNCHANGED <<loggerVars, eng, client, serverVars, auxVars>>
    /\ pc = "fraud_detection"
    /\ \E net \in NetOutcomes("fraud_detector") :
        LET payload == stage_payload("fraud_detector", data, EmptyDict)
            r == call_agent("fraud_detector", payload, net)
            stored == Put(pipeline_results, "fraud_detection", r)
        IN  /\ fraud_result' = r
            /\ calls' = Append(calls, [agent |-> "fraud_detector", payload |-> payload, net |-> net])
            /\ IF Succeeded(r) /\ ~Has(r, "result") THEN
                    pipeline_results' = stored /\ Raise("KeyError: result")
               ELSE IF high_fraud_risk(r) THEN
                    LET final == Put(stored, "final_decision",
                                     [decision |-> "rejected",
                                      reason |-> "High fraud risk detected",
                                      fraud_probability |->
                                          Get(Get(r, "result", EmptyDict), "fraud_probability", -1)])
                    IN  pipeline_results' = final /\ Return(final)
               ELSE /\ pipeline_results' = stored
                    /\ pc' = stage_after("fraud_detection")
                    /\ returned' = returned
    /\ UNCHANGED <<now, request, data, feature_result, scoring_result, response>>

\* Step 3: Credit Scoring
StepCreditScoring ==
    /\ UNCHANGED <<loggerVars, eng, client, serverVars, auxVars>>
    /\ pc = "credit_scoring"
    /\ IF ~Has(feature_result, "result") \/ ~Has(feature_result.result, "features") THEN
            /\ Raise("KeyError: features")
            /\ UNCHANGED <<scoring_result, calls, pipeline_results>>
       ELSE \E net \in NetOutcomes("scoring") :
            LET features == feature_result.result.features
                payload == stage_payload("scoring", data, features)
                r == call_agent("scoring", payload, net)
            IN  /\ scoring_result' = r
                /\ calls' = Append(calls, [agent |-> "scoring", payload |-> payload, net |-> net])
                /\ pipeline_results' = Put(pipeline_results, "credit_scoring", r)
                /\ IF ~Succeeded(r)
                   THEN Return([error |-> "Credit scoring failed", stage |-> "credit_scoring"])
                   ELSE pc' = stage_after("credit_scoring") /\ returned' = returned
    /\ UNCHANGED <<now, request, data, feature_result, fraud_result, response>>

\* Step 4: Final Decision
StepFinalDecision ==
    /\ UNCHANGED <<loggerVars, eng, client, serverVars, auxVars>>
    /\ pc = "final_decision"
    /\ IF \/ ~Has(scoring_result, "result")
          \/ ~Has(scoring_result.result, "credit_score")
          \/ ~Has(scoring_result.result, "risk_assessment")
          \/ ~Has(scoring_result.result.risk_assessment, "risk_level") THEN
            /\ Raise("KeyError: scoring result")
            /\ pipeline_results' = pipeline_results
       ELSE LET credit_score == scoring_result.result.credit_score
                risk_level == scoring_result.result.risk_assessment.risk_level
                final_decision == make_loan_decision(credit_score, risk_level, data)
            IN  /\ pipeline_results' = Put(pipeline_results, "final_decision", final_decision)
                /\ pc' = stage_after("final_decision")
                /\ returned' = returned
    /\ UNCHANGED <<now, request, data, feature_result, fraud_result, scoring_result,
                   response, calls>>

\* Step 5: Blockchain Logging, and the return of the pipeline's results
StepBlockchainLogging ==
    /\ UNCHANGED <<loggerVars, eng, client, serverVars, auxVars>>
    /\ pc = "blockchain_logging"
    /\ \E net \in NetOutcomes("blockchain_logger") :
        LET final_decision == pipeline_results["final_decision"]
            log_data == Put(Put(final_decision,
                                "applicant_id", Get(data, "applicant_id", "None")),
                                "log_type", "loan_decision")
            r == call_agent("blockchain_logger", log_data, net)
            final == logged_results(pipeline_results, r)
        IN  /\ calls' = Append(calls, [agent |-> "blockchain_logger", payload |-> log_data, net |-> net])
            /\ pipeline_results' = final
            /\ Return(final)
    /\ UNCHANGED <<now, request, data, feature_result, fraud_result, scoring_result, response>>

\* submit_application after process_application_pipeline has returned
Respond ==
    /\ UNCHANGED <<loggerVars, eng, client, serverVars, auxVars>>
    /\ pc = "done"
    /\ response' = [status |-> 200, success |-> TRUE,
                    application_id |-> data["application_id"],
                    result |-> returned,
                    submitted_at |-> data["submitted_at"]]
    /\ pc' = "responded"
    /\ UNCHANGED <<now, request, data, feature_result, fraud_result, scoring_result,
                   pipeline_results, returned, calls>>

Next ==
    \/ Tick
    \/ SubmitApplication
    \/ StepFeatureExtraction
    \/ StepFraudDetection
    \/ StepCreditScoring
    \/ StepFinalDecision
    \/ StepBlockchainLogging
    \/ Respond

-----------------------------------------------------------------------------
(* BlockchainLogger: records, the durable sink and the local cache *)

CacheLimit == 1000

LogTypes == {"credit_assessment", "fraud_detection", "loan_decision"}

sensitive_fields ==
    {"personal_details", "phone_number", "email", "address",
     "bank_account", "pan_number", "aadhar_number"}

\* str.lower() on the field names of the model
Lower(field_name) ==
    CASE field_name = "PAN_Number" -> "pan_number"
      [] field_name = "Email" -> "email"
      [] OTHER -> field_name

\* the mutant knows the first name of the list only
is_sensitive_field_first(field_name) == Lower(field_name) = "personal_details"

\* _is_sensitive_field
is_sensitive_field(field_name) == Lower(field_name) \in sensitive_fields

\* _create_data_hash: the SHA-256 digest of json.dumps(safe_data, sort_keys=True),
\* modelled as the content it is the digest of (equal content, equal digest;
\* different content, different digest)
create_data_hash(d) ==
    LET safe_data == [k \in {x \in DOMAIN d : ~is_sensitive_field(x)} |-> d[k]]
    IN  <<"sha256", safe_data>>

\* _create_transaction_record: the record id is a hash of the applicant id, the
\* timestamp and the payload, modelled as the pair it is computed from
create_transaction_record(d, record_type, timestamp) ==
    [record_id |-> <<Get(d, "applicant_id", "anonymous"), timestamp>>,
     record_type |-> record_type,
     timestamp |-> timestamp,
     applicant_id |-> Get(d, "applicant_id", "anonymous"),
     data_hash |-> create_data_hash(d)]

\* _submit_to_blockchain, given what _is_blockchain_available answers
submit_to_blockchain(record, cache, available) ==
    IF ~available THEN [success |-> FALSE, error |-> "Blockchain network not available"]
    ELSE [success |-> TRUE,
          transaction_id |-> <<"tx", record.record_id>>,
          block_number |-> Len(cache) + 1000]

\* the mutant keeps the oldest records instead of the newest
TrimCacheOldest(cache) ==
    IF Len(cache) > CacheLimit THEN SubSeq(cache, 1, CacheLimit) ELSE cache

\* "Limit cache size": self.local_cache[-1000:]
TrimCache(cache) ==
    IF Len(cache) > CacheLimit
    THEN SubSeq(cache, Len(cache) - CacheLimit + 1, Len(cache))
    ELSE cache

\* the mutant answers as if it had stored the record and stores nothing
store_in_cache_dropping(cache, record, cached_at) ==
    LET cache_id == <<"cache", Len(cache)>>
        cached_record == Put(Put(record, "cache_id", cache_id), "cached_at", cached_at)
    IN  [cache |-> cache,
         cached_record |-> cached_record,
         ret |-> [cache_id |-> cache_id, cache_size |-> Len(cache)]]

\* _store_in_cache: the new cache and the returned dict
store_in_cache(cache, record, cached_at) ==
    LET cache_id == <<"cache", Len(cache)>>
        cached_record == Put(Put(record, "cache_id", cache_id), "cached_at", cached_at)
        new_cache == TrimCache(Append(cache, cached_record))
    IN  [cache |-> new_cache,
         cached_record |-> cached_record,
         ret |-> [cache_id |-> cache_id, cache_size |-> Len(new_cache)]]

\* whether list.remove(x) finds x
Contains(cache, x) == \E i \in 1..Len(cache) : cache[i] = x

\* the mutant forgets the removal
RemoveNothing(cache, x) == cache

\* list.remove(x): drops the first element equal to x
RemoveFirst(cache, x) ==
    IF ~Contains(cache, x) THEN cache
    ELSE LET i == CHOOSE j \in 1..Len(cache) :
                    cache[j] = x /\ \A k \in 1..(j - 1) : cache[k] # x
         IN  SubSeq(cache, 1, i - 1) \o SubSeq(cache, i + 1, Len(cache))

\* The loop of sync_cache_to_blockchain from position i of the iterated list on.
\* st is the loop's state: the live cache, synced_count, failed_sync, the records
\* submitted, the records the sink accepted, and whether remove raised.
RECURSIVE SyncLoop(_, _, _, _)
SyncLoop(st, iterated, i, available) ==
    IF i > Len(iterated) \/ st.raised THEN st
    ELSE LET cached_record == iterated[i]
             result == submit_to_blockchain(cached_record, st.cache, available[i])
             tried == [st EXCEPT !.attempts = Append(@, cached_record)]
         IN  IF result.success THEN
                 IF Contains(tried.cache, cached_record) THEN
                     SyncLoop([tried EXCEPT !.cache = RemoveFirst(@, cached_record),
                                            !.synced_count = @ + 1,
                                            !.written = Append(@, cached_record)],
                              iterated, i + 1, available)
                 ELSE [tried EXCEPT !.written = Append(@, cached_record), !.raised = TRUE]
             ELSE SyncLoop([tried EXCEPT !.failed_sync = Append(@, cached_record.record_id)],
                           iterated, i + 1, available)

\* The loop over the live list instead of a copy: position i of the list as it
\* is when the iteration gets there (the mutant).
RECURSIVE SyncLoopLive(_, _, _)
SyncLoopLive(st, i, available) ==
    IF i > Len(st.cache) \/ st.raised THEN st
    ELSE LET cached_record == st.cache[i]
             result == submit_to_blockchain(cached_record, st.cache, available[i])
             tried == [st EXCEPT !.attempts = Append(@, cached_record)]
         IN  IF result.success THEN
                 SyncLoopLive([tried EXCEPT !.cache = RemoveFirst(@, cached_record),
                                            !.synced_count = @ + 1,
                                            !.written = Append(@, cached_record)],
                              i + 1, available)
             ELSE SyncLoopLive([tried EXCEPT !.failed_sync = Append(@, cached_record.record_id)],
                               i + 1, available)

SyncStart(cache) ==
    [cache |-> cache, synced_count |-> 0, failed_sync |-> <<>>,
     attempts |-> <<>>, written |-> <<>>, raised |-> FALSE]

sync_loop_live(cache, available) == SyncLoopLive(SyncStart(cache), 1, available)

\* "for cached_record in self.local_cache[:]": the loop runs over a copy
sync_loop(cache, available) == SyncLoop(SyncStart(cache), cache, 1, available)

LoggerInit ==
    /\ local_cache = <<>>
    /\ ledger = <<>>
    /\ log_clock = 0
    /\ last_log = Unset
    /\ sync_passes = <<>>
    /\ appended = <<>>

\* log_credit_assessment, log_fraud_detection, log_loan_decision: the three have
\* the same body but for the record type.  The timestamp is the clock's next
\* reading: two records are never created within the same microsecond.
LogRequest(record_type, d, available) ==
    LET timestamp == log_clock + 1
        transaction_record == create_transaction_record(d, record_type, timestamp)
        blockchain_result == submit_to_blockchain(transaction_record, local_cache, available)
    IN  /\ log_clock' = timestamp
        /\ sync_passes' = <<>>
        /\ IF blockchain_result.success THEN
                /\ ledger' = Append(ledger, transaction_record)
                /\ local_cache' = local_cache
                /\ appended' = appended
                /\ last_log' = [record |-> transaction_record,
                                cache_before |-> local_cache,
                                available |-> available,
                                ret |-> [success |-> TRUE,
                                         transaction_id |-> blockchain_result.transaction_id,
                                         timestamp |-> timestamp,
                                         storage |-> "blockchain"]]
           ELSE LET cache_result == store_in_cache(local_cache, transaction_record, timestamp)
                IN  /\ local_cache' = cache_result.cache
                    /\ appended' = Append(appended, cache_result.cached_record)
                    /\ ledger' = ledger
                    /\ last_log' = [record |-> transaction_record,
                                    cache_before |-> local_cache,
                                    available |-> available,
                                    ret |-> [success |-> TRUE,
                                             cache_id |-> cache_result.ret.cache_id,
                                             timestamp |-> timestamp,
                                             storage |-> "cache"]]

LogPayloads == {[applicant_id |-> "A1"]}

LogCreditAssessment ==
    /\ UNCHANGED <<pipelineVars, eng, client, serverVars, auxVars>>
    /\ log_clock < MaxLogs
    /\ \E d \in LogPayloads, available \in BOOLEAN :
            LogRequest("credit_assessment", d, available)

LogFraudDetection ==
    /\ UNCHANGED <<pipelineVars, eng, client, serverVars, auxVars>>
    /\ log_clock < MaxLogs
    /\ \E d \in LogPayloads, available \in BOOLEAN :
            LogRequest("fraud_detection", d, available)

LogLoanDecision ==
    /\ UNCHANGED <<pipelineVars, eng, client, serverVars, auxVars>>
    /\ log_clock < MaxLogs
    /\ \E d \in LogPayloads, available \in BOOLEAN :
            LogRequest("loan_decision", d, available)

\* sync_cache_to_blockchain, run to its return; available[i] is what
\* _is_blockchain_available answers for the i-th record submitted
SyncCacheToBlockchain ==
    /\ UNCHANGED <<pipelineVars, eng, client, serverVars, auxVars>>
    /\ Len(sync_passes) < MaxSyncs
    /\ IF local_cache = <<>> THEN
            LET pass == [before |-> local_cache, after |-> local_cache,
                         ledger_before |-> ledger,
                         attempts |-> <<>>, written |-> <<>>, accepted |-> {},
                         ret |-> [success |-> TRUE, synced_count |-> 0,
                                  message |-> "No cached records to sync"]]
            IN  /\ sync_passes' = Append(sync_passes, pass)
                /\ UNCHANGED <<local_cache, ledger>>
       ELSE \E available \in [1..Len(local_cache) -> BOOLEAN] :
            LET st == sync_loop(local_cache, available)
                pass == [before |-> local_cache, after |-> st.cache,
                         ledger_before |-> ledger,
                         attempts |-> st.attempts, written |-> st.written,
                         accepted |-> {i \in 1..Len(local_cache) : available[i]},
                         ret |-> IF st.raised
                                 THEN [success |-> FALSE, error |-> "ValueError"]
                                 ELSE [success |-> TRUE,
                                       synced_count |-> st.synced_count,
                                       remaining_cache |-> Len(st.cache),
                                       failed_sync |-> st.failed_sync]]
            IN  /\ local_cache' = st.cache
                /\ ledger' = ledger \o st.written
                /\ sync_passes' = Append(sync_passes, pass)
    /\ UNCHANGED <<log_clock, last_log, appended>>

NextLogger ==
    \/ LogCreditAssessment
    \/ LogFraudDetection
    \/ LogLoanDecision
    \/ SyncCacheToBlockchain

\* a logging request that finds the durable sink unavailable
CacheAppend ==
    /\ UNCHANGED <<pipelineVars, eng, client, serverVars, auxVars>>
    /\ log_clock < MaxAppends
    /\ \E d \in LogPayloads : LogRequest("loan_decision", d, FALSE)

-----------------------------------------------------------------------------
(* The logger agent as Flask serves it: one thread per request, and no lock
   around self.local_cache.  A list method (append, remove, a slice, len) is
   one step; a thread switch can fall between any two of them, so
   "self.local_cache = self.local_cache[-1000:]" is a slice and then a store. *)

Threads == {1, 2}

IdleThread ==
    [pc |-> "idle", record |-> Unset, tmp |-> <<>>, snapshot |-> <<>>, i |-> 0,
     synced_count |-> 0, failed_sync |-> <<>>,
     ret |-> Unset, served |-> <<>>]

\* the thread's request is over: it returns ret and the thread is free again
Returns(t, kind, ret) ==
    [threads EXCEPT ![t] = [IdleThread EXCEPT !.ret = ret,
                                              !.served = Append(threads[t].served, kind)]]

\* log_loan_decision up to its call of _store_in_cache
ThreadLogBegin(t) ==
    /\ UNCHANGED <<pipelineVars, eng, client, auxVars>>
    /\ threads[t].pc = "idle"
    /\ quota[t].log > 0
    /\ quota' = [quota EXCEPT ![t].log = @ - 1]
    /\ \E d \in LogPayloads, available \in BOOLEAN :
        LET timestamp == log_clock + 1
            transaction_record == create_transaction_record(d, "loan_decision", timestamp)
            blockchain_result == submit_to_blockchain(transaction_record, local_cache, available)
        IN  /\ log_clock' = timestamp
            /\ IF blockchain_result.success THEN
                    /\ ledger' = Append(ledger, transaction_record)
                    /\ threads' = Returns(t, "log",
                                    [success |-> TRUE,
                                     transaction_id |-> blockchain_result.transaction_id,
                                     timestamp |-> timestamp,
                                     storage |-> "blockchain"])
               ELSE /\ ledger' = ledger
                    /\ threads' = [threads EXCEPT ![t].pc = "store",
                                                  ![t].record = transaction_record]
    /\ UNCHANGED <<local_cache, last_log, sync_passes, appended>>

\* _store_in_cache: cache_id = f"cache_{len(self.local_cache)}" and cached_record
ThreadStoreId(t) ==
    /\ UNCHANGED <<pipelineVars, eng, client, auxVars>>
    /\ threads[t].pc = "store"
    /\ threads' = [threads EXCEPT
            ![t].pc = "append",
            ![t].record = store_in_cache(local_cache, threads[t].record,
                                         threads[t].record.timestamp).cached_record]
    /\ UNCHANGED <<loggerVars, quota>>

\* _store_in_cache: self.local_cache.append(cached_record)
ThreadStoreAppend(t) ==
    /\ UNCHANGED <<pipelineVars, eng, client, auxVars>>
    /\ threads[t].pc = "append"
    /\ local_cache' = Append(local_cache, threads[t].record)
    /\ appended' = Append(appended, threads[t].record)
    /\ threads' = [threads EXCEPT ![t].pc = "check"]
    /\ UNCHANGED <<ledger, log_clock, last_log, sync_passes, quota>>

\* _store_in_cache: "if len(self.local_cache) > 1000" and, when it is, the slice
\* self.local_cache[-1000:]; otherwise the return
ThreadStoreCheck(t) ==
    /\ UNCHANGED <<pipelineVars, eng, client, auxVars>>
    /\ threads[t].pc = "check"
    /\ IF Len(local_cache) > CacheLimit
       THEN threads' = [threads EXCEPT ![t].pc = "assign", ![t].tmp = TrimCache(local_cache)]
       ELSE threads' = Returns(t, "log",
                        [success |-> TRUE, cache_id |-> threads[t].record.cache_id,
                         timestamp |-> threads[t].record.timestamp, storage |-> "cache"])
    /\ UNCHANGED <<loggerVars, quota>>

\* _store_in_cache: the store of the slice into self.local_cache, and the return
ThreadStoreAssign(t) ==
    /\ UNCHANGED <<pipelineVars, eng, client, auxVars>>
    /\ threads[t].pc = "assign"
    /\ local_cache' = threads[t].tmp
    /\ threads' = Returns(t, "log",
                    [success |-> TRUE, cache_id |-> threads[t].record.cache_id,
                     timestamp |-> threads[t].record.timestamp, storage |-> "cache"])
    /\ UNCHANGED <<ledger, log_clock, last_log, sync_passes, appended, quota>>

\* sync_cache_to_blockchain: "if not self.local_cache" and the copy the loop runs over
ThreadSyncBegin(t) ==
    /\ UNCHANGED <<pipelineVars, eng, client, auxVars>>
    /\ threads[t].pc = "idle"
    /\ quota[t].sync > 0
    /\ quota' = [quota EXCEPT ![t].sync = @ - 1]
    /\ IF local_cache = <<>>
       THEN threads' = Returns(t, "sync",
                        [success |-> TRUE, synced_count |-> 0,
                         message |-> "No cached records to sync"])
       ELSE threads' = [threads EXCEPT ![t].pc = "submit", ![t].snapshot = local_cache,
                                       ![t].i = 1]
    /\ UNCHANGED loggerVars

\* the loop goes on to the next record of the copy, or the pass returns
SyncAdvance(t, cache, synced_count, failed_sync) ==
    IF threads[t].i < Len(threads[t].snapshot)
    THEN [threads EXCEPT ![t].pc = "submit", ![t].i = @ + 1,
                         ![t].synced_count = synced_count,
                         ![t].failed_sync = failed_sync]
    ELSE Returns(t, "sync",
            [success |-> TRUE, synced_count |-> synced_count,
             remaining_cache |-> Len(cache), failed_sync |-> failed_sync])

\* the loop body: result = self._submit_to_blockchain(cached_record)
ThreadSyncSubmit(t) ==
    /\ UNCHANGED <<pipelineVars, eng, client, auxVars>>
    /\ threads[t].pc = "submit"
    /\ threads[t].i <= MaxStepped
    /\ \E available \in BOOLEAN :
        LET cached_record == threads[t].snapshot[threads[t].i]
            result == submit_to_blockchain(cached_record, local_cache, available)
        IN  IF result.success THEN
                /\ ledger' = Append(ledger, cached_record)
                /\ threads' = [threads EXCEPT ![t].pc = "remove"]
            ELSE
                /\ ledger' = ledger
                /\ threads' = SyncAdvance(t, local_cache, threads[t].synced_count,
                                    Append(threads[t].failed_sync, cached_record.record_id))
    /\ UNCHANGED <<local_cache, log_clock, last_log, sync_passes, appended, quota>>

\* the mutant rebuilds the cache from the copy: what is left of the copy
cache_after_write_from_copy(cache, snapshot, i) == SubSeq(snapshot, i + 1, Len(snapshot))

\* the loop body: self.local_cache.remove(cached_record), on the list as it is now
cache_after_write(cache, snapshot, i) == RemoveFirst(cache, snapshot[i])

\* the loop body after a write that succeeded; a record that is no longer in the
\* list makes remove raise ValueError, which ends the pass in the except clause
ThreadSyncRemove(t) ==
    /\ UNCHANGED <<pipelineVars, eng, client, auxVars>>
    /\ threads[t].pc = "remove"
    /\ IF Contains(local_cache, threads[t].snapshot[threads[t].i]) THEN
            LET cache == cache_after_write(local_cache, threads[t].snapshot, threads[t].i)
            IN  /\ local_cache' = cache
                /\ threads' = SyncAdvance(t, cache, threads[t].synced_count + 1,
                                          threads[t].failed_sync)
       ELSE /\ local_cache' = local_cache
            /\ threads' = Returns(t, "sync", [success |-> FALSE, error |-> "ValueError"])
    /\ UNCHANGED <<ledger, log_clock, last_log, sync_passes, appended, quota>>

\* one iteration of the loop of sync_cache_to_blockchain on its state st (the
\* live cache, synced_count, failed_sync, the records the sink accepted, and
\* whether remove raised)
SyncBody(st, cached_record, available) ==
    LET result == submit_to_blockchain(cached_record, st.cache, available)
    IN  IF result.success THEN
            IF Contains(st.cache, cached_record) THEN
                [st EXCEPT !.cache = RemoveFirst(@, cached_record),
                           !.synced_count = @ + 1,
                           !.written = Append(@, cached_record)]
            ELSE [st EXCEPT !.written = Append(@, cached_record), !.raised = TRUE]
        ELSE [st EXCEPT !.failed_sync = Append(@, cached_record.record_id)]

\* the iterations lo..hi of the loop, one after another, up to a raise
RECURSIVE SyncRange(_, _, _, _, _)
SyncRange(st, iterated, lo, hi, available) ==
    IF lo > hi \/ st.raised THEN st
    ELSE IF lo = hi THEN SyncBody(st, iterated[lo], available)
    ELSE LET mid == (lo + hi) \div 2
             first == SyncRange(st, iterated, lo, mid, available)
         IN  SyncRange(first, iterated, mid + 1, hi, available)

\* the iterations of a pass after the first MaxStepped, run without a thread
\* switch and with one answer of _is_blockchain_available for all of them
ThreadSyncRest(t) ==
    /\ UNCHANGED <<pipelineVars, eng, client, auxVars>>
    /\ threads[t].pc = "submit"
    /\ threads[t].i > MaxStepped
    /\ \E available \in BOOLEAN :
        LET st == SyncRange([cache |-> local_cache,
                             synced_count |-> threads[t].synced_count,
                             failed_sync |-> threads[t].failed_sync,
                             written |-> <<>>, raised |-> FALSE],
                            threads[t].snapshot, threads[t].i, Len(threads[t].snapshot),
                            available)
        IN  /\ local_cache' = st.cache
            /\ ledger' = ledger \o st.written
            /\ threads' = Returns(t, "sync",
                            IF st.raised
                            THEN [success |-> FALSE, error |-> "ValueError"]
                            ELSE [success |-> TRUE, synced_count |-> st.synced_count,
                                  remaining_cache |-> Len(st.cache),
                                  failed_sync |-> st.failed_sync])
    /\ UNCHANGED <<log_clock, last_log, sync_passes, appended, quota>>

NextServer ==
    \/ \E t \in Threads : ThreadLogBegin(t)
    \/ \E t \in Threads : ThreadStoreId(t)
    \/ \E t \in Threads : ThreadStoreAppend(t)
    \/ \E t \in Threads : ThreadStoreCheck(t)
    \/ \E t \in Threads : ThreadStoreAssign(t)
    \/ \E t \in Threads : ThreadSyncBegin(t)
    \/ \E t \in Threads : ThreadSyncSubmit(t)
    \/ \E t \in Threads : ThreadSyncRemove(t)
    \/ \E t \in Threads : ThreadSyncRest(t)

\* the cache after n <= 1000 logging requests, one at a time, that found the
\* sink down: the i-th record was stored when the cache held i - 1 records
FilledCache(n) ==
    [i \in 1..n |->
        store_in_cache([j \in 1..(i - 1) |-> Unset],
                       create_transaction_record([applicant_id |-> "A1"], "loan_decision", i),
                       i).cached_record]

\* The server starts with a cache those requests left.  Sync passes are run one
\* at a time, by thread 1; logging requests arrive on both threads.  Thread 1
\* takes a logging request and two sync passes, in any order, or at capacity
\* either the request or the passes; thread 2 takes a logging request.
ServerInit ==
    /\ ledger = <<>>
    /\ last_log = Unset
    /\ sync_passes = <<>>
    /\ appended = <<>>
    /\ threads = [t \in Threads |-> IdleThread]
    /\ \E n \in (0..MaxSmallCache) \cup {CacheLimit} :
        /\ local_cache = FilledCache(n)
        /\ log_clock = n
        /\ \E q \in (IF n < CacheLimit THEN {[log |-> 1, sync |-> 2]}
                      ELSE {[log |-> 1, sync |-> 0], [log |-> 0, sync |-> 2]}) :
                quota = [t \in Threads |-> IF t = 1 THEN q ELSE [log |-> 1, sync |-> 0]]

-----------------------------------------------------------------------------
(* The decision engine on its own: every score with every requested amount *)

EngineInputs ==
    {[phase |-> "input", credit_score |-> s, application_data |-> Body(keys, "A1", amt)]
        : s \in 0..MaxScore, amt \in Amounts,
          keys \in {{"applicant_id"}, {"applicant_id", "loan_amount"}}}

Decide ==
    /\ UNCHANGED <<pipelineVars, loggerVars, client, serverVars, auxVars>>
    /\ eng.phase = "input"
    /\ eng' = [phase |-> "decided",
               credit_score |-> eng.credit_score,
               application_data |-> eng.application_data,
               decision |-> make_loan_decision(eng.credit_score,
                                               assess_risk_level(eng.credit_score),
                                               eng.application_data)]

-----------------------------------------------------------------------------
(* The agent client on its own: call_agent with any name, and the orchestrator's
   POST /api/v1/orchestrate route *)

\* names a caller may pass: the registry's, and two that are not in it
AgentNames == (DOMAIN agent_ports) \cup {"blockchain", "risk_engine"}

ClientPayloads ==
    {[applicant_id |-> "A1"],
     [applicant_id |-> "A1", age |-> 45],
     [applicant_id |-> "A1", age |-> 45, monthly_income |-> 80000]}

\* rag coach, POST /process
RagCoachBodies ==
    {[success |-> TRUE, result |-> [response |-> "guidance"], service |-> "rag_coach"]}

\* what the network can do with a request of the client
ClientNetOutcomes(agent_type) ==
    IF agent_type \in {"feature_extractor", "fraud_detector", "scoring", "blockchain_logger"}
    THEN NetOutcomes(agent_type)
    ELSE {NetResponse(b) : b \in RagCoachBodies}
         \cup {NetStatus(500), NetConnectionError, NetTimeout}

\* no request was issued
NetNone == [kind |-> "none"]

\* orchestrate_agents's registry
agent_urls ==
    [fraud_detector |-> 5001, feature_extractor |-> 5002, scoring |-> 5003,
     rag_coach |-> 5004, blockchain_logger |-> 5005]

\* request bodies of POST /api/v1/orchestrate: any of the two keys may be missing
OrchestrateBodies ==
    {[agent_type |-> n, payload |-> p] : n \in AgentNames, p \in ClientPayloads}
    \cup {[agent_type |-> n] : n \in AgentNames}
    \cup {[payload |-> p] : p \in ClientPayloads}
    \cup {EmptyDict}

\* orchestrate_agents gets as far as requests.post
orchestrate_forwards(body) ==
    /\ body # EmptyDict
    /\ Has(body, "agent_type")
    /\ body["agent_type"] \in DOMAIN agent_urls

\* the requests.post calls one POST /api/v1/orchestrate issues
orchestrate_posts(body) ==
    IF orchestrate_forwards(body)
    THEN <<[agent |-> body["agent_type"], payload |-> Get(body, "payload", EmptyDict)]>>
    ELSE <<>>

\* orchestrate_agents: the HTTP status and the JSON body it answers
orchestrate_agents(body, net) ==
    IF body = EmptyDict THEN [status |-> 400, error |-> "No data provided"]
    ELSE IF ~Has(body, "agent_type") THEN [status |-> 400, error |-> "Agent type is required"]
    ELSE IF ~orchestrate_forwards(body) THEN [status |-> 400, error |-> "Unknown agent type"]
    ELSE IF net.kind = "response" THEN
        IF net.status_code = 200
        THEN [status |-> 200, success |-> TRUE, agent_type |-> body["agent_type"],
              result |-> net.json]
        ELSE [status |-> net.status_code, success |-> FALSE,
              agent_type |-> body["agent_type"], error |-> "Agent returned status"]
    ELSE IF net.kind = "connection_error" THEN
        [status |-> 200, success |-> FALSE, agent_type |-> body["agent_type"],
         error |-> "Agent service is not available",
         fallback_result |-> [status |-> "service_unavailable",
                              message |-> body["agent_type"]]]
    ELSE [status |-> 504, success |-> FALSE, agent_type |-> body["agent_type"],
          error |-> "Agent request timed out"]

ClientInputs ==
    {[phase |-> "input", via |-> "call_agent", agent_type |-> n, data |-> p]
        : n \in AgentNames, p \in ClientPayloads}
    \cup {[phase |-> "input", via |-> "orchestrate", body |-> b] : b \in OrchestrateBodies}

\* one call of call_agent
CallAgent ==
    /\ UNCHANGED <<pipelineVars, loggerVars, eng, serverVars, auxVars>>
    /\ client.phase = "input"
    /\ client.via = "call_agent"
    /\ \E net \in ClientNetOutcomes(client.agent_type) :
        LET posts == agent_posts(client.agent_type, client.data)
        IN  client' = [phase |-> "returned", via |-> "call_agent",
                       agent_type |-> client.agent_type, data |-> client.data,
                       posts |-> posts,
                       net |-> IF posts = <<>> THEN NetNone ELSE net,
                       result |-> call_agent(client.agent_type, client.data, net)]

\* one request to POST /api/v1/orchestrate
OrchestrateAgents ==
    /\ UNCHANGED <<pipelineVars, loggerVars, eng, serverVars, auxVars>>
    /\ client.phase = "input"
    /\ client.via = "orchestrate"
    /\ \E net \in ClientNetOutcomes(Get(client.body, "agent_type", "none")) :
        LET posts == orchestrate_posts(client.body)
        IN  client' = [phase |-> "returned", via |-> "orchestrate",
                       body |-> client.body,
                       posts |-> posts,
                       net |-> IF posts = <<>> THEN NetNone ELSE net,
                       result |-> orchestrate_agents(client.body, net)]

-----------------------------------------------------------------------------
(* _create_transaction_record on two payloads *)

HashKeys == {"applicant_id", "email", "PAN_Number", "personal_info"}

\* a payload with the fields keys; personal_info is an object with an email of
\* its own
HashPayload(keys, value) ==
    [k \in keys |-> IF k = "personal_info" THEN [email |-> value[k]] ELSE value[k]]

HashPayloads ==
    UNION {{HashPayload(keys, value) : value \in [keys -> 1..MaxValues]} :
                keys \in SUBSET HashKeys}

HashInputs == {[phase |-> "input", data |-> <<a, b>>] : a, b \in HashPayloads}

\* the audit records of the two payloads, created at the same time
CreateTransactionRecord ==
    /\ UNCHANGED <<pipelineVars, loggerVars, eng, client, serverVars, submissions>>
    /\ hashed.phase = "input"
    /\ \E record_type \in LogTypes :
            hashed' = [phase |-> "created",
                       data |-> hashed.data,
                       records |-> <<create_transaction_record(hashed.data[1], record_type, 1),
                                     create_transaction_record(hashed.data[2], record_type, 1)>>]

-----------------------------------------------------------------------------
(* POST /applications serving one submission after another *)

\* submit_application for one more request: a body that passes the validation
\* is given its processing metadata and is accepted
AcceptSubmission ==
    /\ UNCHANGED <<pipelineVars, loggerVars, eng, client, serverVars, hashed>>
    /\ Len(submissions) < MaxSubmissions
    /\ \E body \in Requests :
            /\ DOMAIN body # {}
            /\ FirstMissing(body) = 0
            /\ submissions' = Append(submissions, with_processing_metadata(body, now))

-----------------------------------------------------------------------------
(* Specifications *)

ParkedRequest == Body({"applicant_id", "personal_info", "financial_info"}, "A1", 0)

EngineParked == eng = [phase |-> "off"]

ClientParked == client = [phase |-> "off"]

ServerParked == threads = [t \in Threads |-> IdleThread] /\ quota = [t \in Threads |-> [log |-> 0, sync |-> 0]]

AuxParked == hashed = [phase |-> "off"] /\ submissions = <<>>

\* one application through POST /applications
Init == PipelineInit /\ LoggerInit /\ EngineParked /\ ClientParked /\ ServerParked /\ AuxParked
Spec == Init /\ [][Next]_vars

\* a request, once received, is worked on until it is answered: the thread that
\* serves it runs submit_application to its return
SpecFair == Init /\ [][Next]_vars /\ WF_vars(Next)

\* make_loan_decision
InitDecision ==
    /\ PipelineInit /\ request = ParkedRequest
    /\ LoggerInit
    /\ eng \in EngineInputs
    /\ ClientParked
    /\ ServerParked
    /\ AuxParked
NextDecision == Decide
SpecDecision == InitDecision /\ [][NextDecision]_vars

\* the logger agent, one request at a time
InitLogger ==
    /\ PipelineInit /\ request = ParkedRequest
    /\ LoggerInit /\ EngineParked /\ ClientParked /\ ServerParked /\ AuxParked
SpecLogger == InitLogger /\ [][NextLogger]_vars

\* the cache filling up while the durable sink is down
NextCache == CacheAppend
SpecCache == InitLogger /\ [][NextCache]_vars

\* the agent client: one call_agent call or one orchestrate request
InitClient ==
    /\ PipelineInit /\ request = ParkedRequest
    /\ LoggerInit
    /\ EngineParked
    /\ client \in ClientInputs
    /\ ServerParked
    /\ AuxParked
NextClient ==
    \/ CallAgent
    \/ OrchestrateAgents
SpecClient == InitClient /\ [][NextClient]_vars

\* the integrity hash of two payloads
InitHash ==
    /\ PipelineInit /\ request = ParkedRequest
    /\ LoggerInit /\ EngineParked /\ ClientParked /\ ServerParked
    /\ hashed \in HashInputs
    /\ submissions = <<>>
NextHash == CreateTransactionRecord
SpecHash == InitHash /\ [][NextHash]_vars

\* the submission endpoint over several requests
InitSubmissions ==
    /\ PipelineInit /\ request = ParkedRequest
    /\ LoggerInit /\ EngineParked /\ ClientParked /\ ServerParked /\ AuxParked
NextSubmissions ==
    \/ Tick
    \/ AcceptSubmission
SpecSubmissions == InitSubmissions /\ [][NextSubmissions]_vars

\* the logger agent serving requests on two threads
InitServer ==
    /\ PipelineInit /\ request = ParkedRequest
    /\ ServerInit /\ EngineParked /\ ClientParked /\ AuxParked
SpecServer == InitServer /\ [][NextServer]_vars

-----------------------------------------------------------------------------
(* Properties of the pipeline *)

Finished == pc \in {"done", "responded"}

Called(agent_type) == \E i \in 1..Len(calls) : calls[i].agent = agent_type

\* the key of pipeline_results a stage's outcome is stored under
StageOf(agent_type) ==
    CASE agent_type = "feature_extractor" -> "feature_extraction"
      [] agent_type = "fraud_detector" -> "fraud_detection"
      [] agent_type = "scoring" -> "credit_scoring"
      [] agent_type = "blockchain_logger" -> "blockchain_logging"

\* what call_agent returned for the call of an agent, once it has been called
ResultOf(agent_type) ==
    CASE agent_type = "feature_extractor" -> feature_result
      [] agent_type = "fraud_detector" -> fraud_result
      [] agent_type = "scoring" -> scoring_result
      [] agent_type = "blockchain_logger" -> pipeline_results["blockchain_logging"]

Unavailable(result) == Has(result, "fallback_result")

TimedOut(result) == Has(result, "error") /\ result.error = "Agent request timed out"

Decisions == {"approved", "conditional_approval", "rejected"}

HasDecision(result) ==
    /\ Has(result, "final_decision")
    /\ result["final_decision"].decision \in Decisions

FraudPositive ==
    /\ Has(fraud_result, "result")
    /\ Get(fraud_result.result, "is_fraud", FALSE)

\* C1: whenever the fraud detector has answered is_fraud = true, the run is over,
\* the scoring agent has not been called, and the result returned has the final
\* decision 'rejected'.
C1_FraudShortCircuit ==
    FraudPositive =>
        /\ Finished
        /\ ~Called("scoring")
        /\ Has(returned, "final_decision")
        /\ returned["final_decision"].decision = "rejected"

C1_Witness ==
    /\ FraudPositive
    /\ pc = "responded"
    /\ Called("fraud_detector")
    /\ returned["final_decision"].fraud_probability = 92

\* C2: a run in which every agent call ended in a connection failure returns a
\* result with a final decision (approved, conditional_approval or rejected),
\* not an error result.
C2_OutageStillDecides ==
    (/\ Finished
     /\ calls # <<>>
     /\ \A i \in 1..Len(calls) : Unavailable(ResultOf(calls[i].agent)))
        => HasDecision(returned) /\ ~Has(returned, "error")

\* C5: a run that called the feature extractor also calls the fraud detector,
\* whatever the feature extractor's call ended in.
C5_AlwaysOnToFraudCheck ==
    (Finished /\ Called("feature_extractor")) => Called("fraud_detector")

\* a successful answer with everything the later stages read from it
WellFormed(agent_type, result) ==
    /\ Succeeded(result)
    /\ Has(result, "result")
    /\ agent_type = "feature_extractor" => Has(result.result, "features")
    /\ agent_type = "scoring" =>
            /\ Has(result.result, "credit_score")
            /\ Has(result.result, "risk_assessment")

\* C6: in a run whose other agent calls succeed, a fraud detector's or a scoring
\* agent's call that timed out does not abort the run: the run goes on to the
\* stage after it (scoring after the fraud check, the decision after scoring),
\* returns no error result, and the result returned holds the timed-out outcome
\* under the stage's name.
C6_TimeoutSkipsStage ==
    (Finished /\ WellFormed("feature_extractor", feature_result)) =>
        /\ (TimedOut(fraud_result) /\ WellFormed("scoring", scoring_result)) =>
                /\ Called("scoring")
                /\ ~Has(returned, "error")
                /\ Has(returned, "fraud_detection")
                /\ TimedOut(returned["fraud_detection"])
        /\ (TimedOut(scoring_result) /\ WellFormed("fraud_detector", fraud_result)) =>
                /\ Has(returned, "final_decision")
                /\ ~Has(returned, "error")
                /\ Has(returned, "credit_scoring")
                /\ TimedOut(returned["credit_scoring"])

\* C7: the result a run returns holds, under its stage name, the outcome of
\* every agent call of the run.
C7_ResultHoldsEveryStage ==
    Finished =>
        \A i \in 1..Len(calls) :
            /\ Has(returned, StageOf(calls[i].agent))
            /\ returned[StageOf(calls[i].agent)] = ResultOf(calls[i].agent)

\* the outcome of the run's call of an agent, as requests.post ended
NetOf(agent_type) ==
    (CHOOSE c \in {calls[i] : i \in 1..Len(calls)} : c.agent = agent_type).net

\* C17: a run that got as far as the audit call returns, without an 'error' key,
\* the decision the decision stage made, whether the blockchain_logger call
\* succeeded, was answered with an error status, was refused or timed out; and
\* the response to the caller is a 200 that carries it.
C17_AuditNeverFailsRun ==
    (Finished /\ Called("blockchain_logger")) =>
        /\ ~Has(returned, "error")
        /\ Has(returned, "final_decision")
        /\ returned["final_decision"] =
                make_loan_decision(scoring_result.result.credit_score,
                                   scoring_result.result.risk_assessment.risk_level,
                                   data)
        /\ pc = "responded" =>
                /\ response.status = 200
                /\ response.result = returned

C17_Witness ==
    /\ pc = "responded"
    /\ Called("blockchain_logger")
    /\ NetOf("blockchain_logger") = NetTimeout
    /\ returned["final_decision"].decision = "approved"
    /\ TimedOut(returned["blockchain_logging"])

Invalid(body) ==
    \E f \in {"applicant_id", "personal_info", "financial_info"} : ~Has(body, f)

\* C18: a submission without applicant_id, personal_info or financial_info never
\* gets past validation: no agent is ever called for it, and the response it
\* gets is a 400 with a validation error.
C18_InvalidSubmissionRejected ==
    Invalid(request) =>
        /\ calls = <<>>
        /\ pc \in {"idle", "responded"}
        /\ pc = "responded" =>
                /\ response.status = 400
                /\ response.error \in {"No application data provided", "Missing required field"}

C18_Witness ==
    /\ pc = "responded"
    /\ Has(request, "applicant_id")
    /\ ~Has(request, "personal_info")
    /\ Has(request, "financial_info")
    /\ response = [status |-> 400, error |-> "Missing required field", field |-> "personal_info"]
    /\ calls = <<>>

CallOrder == <<"feature_extractor", "fraud_detector", "scoring", "blockchain_logger">>

\* C19: the agents called so far are, in order, the first Len(calls) agents of
\* feature_extractor, fraud_detector, scoring, blockchain_logger (so none is
\* called twice or out of turn), the outcome of every call made has been taken
\* before the next step, and the process is at or past the stage of the last call.
C19_CallsInOrder ==
    /\ Len(calls) <= Len(CallOrder)
    /\ \A i \in 1..Len(calls) :
            /\ calls[i].agent = CallOrder[i]
            /\ (i < 4 \/ Finished) => ResultOf(calls[i].agent) # Unset
    /\ pc = "fraud_detection" => Len(calls) = 1
    /\ pc = "credit_scoring" => Len(calls) = 2
    /\ pc \in {"final_decision", "blockchain_logging"} => Len(calls) = 3

C19_Witness ==
    /\ pc = "responded"
    /\ Len(calls) = 4
    /\ calls[1].agent = "feature_extractor"
    /\ calls[2].agent = "fraud_detector"
    /\ calls[3].agent = "scoring"
    /\ calls[4].agent = "blockchain_logger"

\* C20: once the fraud detector has answered is_fraud = true, the result the run
\* returns has an entry for the credit scoring stage with the status 'skipped'.
C20_ScoringMarkedSkipped ==
    (FraudPositive /\ Finished) =>
        /\ Has(returned, "credit_scoring")
        /\ Get(returned["credit_scoring"], "status", "none") = "skipped"

\* the call of an agent the run made, once it has made it
CallOf(agent_type) ==
    CHOOSE c \in {calls[i] : i \in 1..Len(calls)} : c.agent = agent_type

\* C23: every run that returns a result with a final decision, the rejection of
\* the fraud short-circuit included, has called blockchain_logger with that
\* decision before it returned.
C23_EveryDecisionLogged ==
    (Finished /\ HasDecision(returned)) =>
        /\ Called("blockchain_logger")
        /\ CallOf("blockchain_logger").payload.decision =
                returned["final_decision"].decision

\* C24: in a run whose feature extractor answered well and whose fraud detector
\* could not be reached, the scoring agent is called; and when it answers well,
\* the run returns, without an 'error' key, the decision table's result for the
\* returned score and the requested amount: for the score 780 that is approved,
\* the full amount, the rate 8.5 and no conditions.
C24_UnreachableFraudAgentNotFraud ==
    (/\ Finished
     /\ WellFormed("feature_extractor", feature_result)
     /\ Unavailable(fraud_result)) =>
        /\ Called("scoring")
        /\ WellFormed("scoring", scoring_result) =>
            LET credit_score == scoring_result.result.credit_score
                final_decision == returned["final_decision"]
            IN  /\ ~Has(returned, "error")
                /\ final_decision =
                        make_loan_decision(credit_score,
                                           scoring_result.result.risk_assessment.risk_level,
                                           data)
                /\ credit_score = 780 =>
                        /\ final_decision.decision = "approved"
                        /\ final_decision.approved_amount = Get(request, "loan_amount", 0)
                        /\ final_decision.interest_rate = 85
                        /\ final_decision.conditions = <<>>

C24_Witness ==
    /\ pc = "responded"
    /\ Called("fraud_detector")
    /\ NetOf("fraud_detector") = NetConnectionError
    /\ Called("scoring")
    /\ WellFormed("scoring", scoring_result)
    /\ scoring_result.result.credit_score = 780
    /\ returned["final_decision"].approved_amount = 10

\* C25: a run never ends in an exception that leaves process_application_pipeline,
\* and every request is answered: whatever each agent call ends in, the run
\* reaches a return and submit_application sends a response.
C25_NothingIsFatal ==
    /\ [](pc # "crashed")
    /\ <>(pc = "responded" /\ Has(response, "status"))

\* a run whose except clause caught a KeyError, answered
C25_Witness ==
    /\ pc = "responded"
    /\ Has(response, "status")
    /\ Get(returned, "stage", "none") = "pipeline"

\* C26: the scoring agent is called with the features the feature extractor of
\* the same run returned, and the fraud detector with the request, as
\* submit_application handed it to the pipeline, never with derived features.
C26_StagesGetTheirInput ==
    \A i \in 1..Len(calls) :
        /\ calls[i].agent = "scoring" =>
                /\ Has(feature_result, "result")
                /\ calls[i].payload = feature_result.result.features
        /\ calls[i].agent = "fraud_detector" =>
                /\ calls[i].payload = data
                /\ \A k \in DOMAIN request : calls[i].payload[k] = request[k]
                /\ Has(feature_result, "result") =>
                        calls[i].payload # Get(feature_result.result, "features", Unset)

C26_Witness ==
    /\ pc = "responded"
    /\ Called("fraud_detector")
    /\ Called("scoring")
    /\ CallOf("scoring").payload = feature_result.result.features
    /\ CallOf("scoring").payload # CallOf("fraud_detector").payload

\* C27: a response with success = true carries a result that has a final
\* decision, never an error result.
C27_SuccessMeansDecision ==
    (pc = "responded" /\ Get(response, "success", FALSE)) =>
        /\ Has(response.result, "final_decision")
        /\ ~Has(response.result, "error")

-----------------------------------------------------------------------------
(* Properties of the decision engine *)

Decided == eng.phase = "decided"

Requested == Get(eng.application_data, "loan_amount", 0)

\* how many of the table's four score ranges a score lies in
BandsOf(score) ==
    Cardinality({b \in 1..4 :
        \/ b = 1 /\ score >= 750
        \/ b = 2 /\ score >= 650 /\ score <= 749
        \/ b = 3 /\ score >= 550 /\ score <= 649
        \/ b = 4 /\ score < 550})

\* C3: make_loan_decision agrees with the decision table: >= 750 approved, the
\* full requested amount, rate 8.5, no conditions; 650..749 approved, the smaller
\* of the amount and 0.8 times it, rate 12.0; 550..649 conditional_approval, the
\* smaller of the amount and 0.6 times it, rate 16.0; below 550 rejected, amount
\* 0, rate 0; and every score lies in exactly one of the four ranges.
C3_DecisionTable ==
    Decided =>
        LET s == eng.credit_score
            d == eng.decision
        IN  /\ BandsOf(s) = 1
            /\ s >= 750 =>
                    /\ d.decision = "approved"
                    /\ d.approved_amount = Requested
                    /\ d.interest_rate = 85
                    /\ d.conditions = <<>>
            /\ (s >= 650 /\ s <= 749) =>
                    /\ d.decision = "approved"
                    /\ d.approved_amount = Min(Requested, (Requested * 8) \div 10)
                    /\ d.interest_rate = 120
                    /\ Len(d.conditions) = 2
            /\ (s >= 550 /\ s <= 649) =>
                    /\ d.decision = "conditional_approval"
                    /\ d.approved_amount = Min(Requested, (Requested * 6) \div 10)
                    /\ d.interest_rate = 160
                    /\ Len(d.conditions) = 3
            /\ s < 550 =>
                    /\ d.decision = "rejected"
                    /\ d.approved_amount = 0
                    /\ d.interest_rate = 0

C3_Witness ==
    /\ Decided
    /\ eng.credit_score = 650
    /\ Requested = 10
    /\ eng.decision.decision = "approved"
    /\ eng.decision.approved_amount = 8
    /\ eng.decision.interest_rate = 120

\* the approved amount for the same request one score point lower
ApprovedOnePointLower ==
    make_loan_decision(eng.credit_score - 1, assess_risk_level(eng.credit_score - 1),
                       eng.application_data).approved_amount

\* C4 as stated: for every score and every requested amount the approved amount
\* is at most the requested amount, and it does not grow as the score falls.
C4_AsStated ==
    Decided =>
        /\ eng.decision.approved_amount <= Requested
        /\ ApprovedOnePointLower <= eng.decision.approved_amount

\* C4: for every score and every requested amount that is not negative, the
\* approved amount is at most the requested amount, and it does not grow as the
\* score falls.
C4_ApprovedAmountBounded ==
    (Decided /\ Requested >= 0) =>
        /\ eng.decision.approved_amount <= Requested
        /\ ApprovedOnePointLower <= eng.decision.approved_amount

C4_Witness ==
    /\ Decided
    /\ Requested = 10
    /\ eng.credit_score = 550
    /\ eng.decision.approved_amount = 6
    /\ ApprovedOnePointLower = 0

-----------------------------------------------------------------------------
(* Properties of the audit cache *)

\* the last n elements of a sequence (all of it when it has fewer)
LastN(seq, n) ==
    IF Len(seq) <= n THEN seq ELSE SubSeq(seq, Len(seq) - n + 1, Len(seq))

\* C8: after any sequence of appends the cache holds at most 1000 records, and
\* they are the most recently appended ones in append order.
C8_CacheKeepsNewest ==
    /\ Len(local_cache) <= 1000
    /\ local_cache = LastN(appended, 1000)

C8_Witness ==
    /\ Len(appended) = 1001
    /\ Len(local_cache) = 1000
    /\ local_cache[1] = appended[2]
    /\ local_cache[1000] = appended[1001]

\* the elements of seq at the positions in keep, in their order
AtPositions(seq, keep) ==
    LET pick[i \in 0..Len(seq)] ==
            IF i = 0 THEN <<>>
            ELSE IF i \in keep THEN Append(pick[i - 1], seq[i])
            ELSE pick[i - 1]
    IN  pick[Len(seq)]

LastPass == sync_passes[Len(sync_passes)]

\* C9: a sync pass submits each cached record once, in cache order; the records
\* the sink accepted are written and removed, and the cache is left holding
\* exactly the other records in their original order.
C9_SyncRemovesExactlyWritten ==
    sync_passes # <<>> =>
        LET positions == 1..Len(LastPass.before)
        IN  /\ LastPass.attempts = LastPass.before
            /\ LastPass.written = AtPositions(LastPass.before, LastPass.accepted)
            /\ LastPass.after = AtPositions(LastPass.before, positions \ LastPass.accepted)
            /\ local_cache = LastPass.after
            /\ ledger = LastPass.ledger_before \o LastPass.written
            /\ LastPass.ret.success

C9_Witness ==
    /\ sync_passes # <<>>
    /\ Len(LastPass.before) = 3
    /\ LastPass.accepted = {2}
    /\ local_cache = <<LastPass.before[1], LastPass.before[3]>>
    /\ Len(ledger) = 1

AcceptsAll(pass) == pass.accepted = 1..Len(pass.before)

RecordIds(seq) == {seq[i].record_id : i \in 1..Len(seq)}

\* C10: two sync passes in a row with a sink that accepts every write leave the
\* cache empty and write each of the N records the cache held exactly once:
\* N writes in total, no record id twice, none that the sink held before.
C10_SyncTwiceWritesOnce ==
    (/\ Len(sync_passes) >= 2
     /\ AcceptsAll(sync_passes[Len(sync_passes) - 1])
     /\ AcceptsAll(LastPass)) =>
        LET first == sync_passes[Len(sync_passes) - 1]
            writes == first.written \o LastPass.written
        IN  /\ local_cache = <<>>
            /\ Len(writes) = Len(first.before)
            /\ Cardinality(RecordIds(writes)) = Len(writes)
            /\ RecordIds(writes) = RecordIds(first.before)
            /\ RecordIds(writes) \cap RecordIds(first.ledger_before) = {}
            /\ ledger = first.ledger_before \o writes

C10_Witness ==
    /\ Len(sync_passes) >= 2
    /\ AcceptsAll(sync_passes[Len(sync_passes) - 1])
    /\ AcceptsAll(LastPass)
    /\ Len(sync_passes[Len(sync_passes) - 1].before) = 2
    /\ LastPass.before = <<>>
    /\ Len(ledger) = 3

\* whether a sequence of records holds the record with this record id
Holds(seq, record) == record.record_id \in RecordIds(seq)

C29_CacheIdsDistinct ==
    \A i \in 1..Len(local_cache) : \A j \in 1..Len(local_cache) :
        i # j => local_cache[i].cache_id # local_cache[j].cache_id

-----------------------------------------------------------------------------
(* Properties of the agent client *)

Registry == {"feature_extractor", "fraud_detector", "scoring", "rag_coach", "blockchain_logger"}

ClientReturned(via) == client.phase = "returned" /\ client.via = via

\* C14: a name outside the registry makes call_agent return the unknown-agent
\* error, and makes POST /api/v1/orchestrate answer 400 with the unknown-agent
\* error; neither issues a network request.
C14_UnknownAgentRejected ==
    /\ (ClientReturned("call_agent") /\ client.agent_type \notin Registry) =>
            /\ client.posts = <<>>
            /\ client.result = [success |-> FALSE, error |-> "Unknown agent type"]
    /\ (/\ ClientReturned("orchestrate")
        /\ Has(client.body, "agent_type")
        /\ client.body["agent_type"] \notin Registry) =>
            /\ client.posts = <<>>
            /\ client.result = [status |-> 400, error |-> "Unknown agent type"]

C14_Witness ==
    /\ ClientReturned("orchestrate")
    /\ Has(client.body, "agent_type")
    /\ client.body["agent_type"] = "risk_engine"
    /\ Has(client.body, "payload")
    /\ client.posts = <<>>
    /\ client.result.status = 400

\* C15: the fallback call_agent returns after a connection failure is the same
\* for every payload the agent could have been called with.
C15_FallbackIgnoresPayload ==
    (ClientReturned("call_agent") /\ client.net = NetConnectionError) =>
        /\ Unavailable(client.result)
        /\ \A p \in ClientPayloads :
                call_agent(client.agent_type, p, NetConnectionError).fallback_result
                    = client.result.fallback_result

\* C16: a call that timed out returns a failure without a fallback value, which
\* is not what a refused connection returns; and an outcome carries a fallback
\* value only when the connection failed.
C16_TimeoutIsNotDefaulted ==
    ClientReturned("call_agent") =>
        /\ client.net = NetTimeout =>
                /\ ~Succeeded(client.result)
                /\ ~Has(client.result, "fallback_result")
                /\ Has(client.result, "error")
                /\ client.result.error # "Agent service is not available"
        /\ Has(client.result, "fallback_result") => client.net = NetConnectionError

C16_Witness ==
    /\ ClientReturned("call_agent")
    /\ client.agent_type = "scoring"
    /\ client.net = NetTimeout
    /\ client.result = [success |-> FALSE, error |-> "Agent request timed out"]

-----------------------------------------------------------------------------
(* Properties of the threaded logger *)

AllIdle == \A t \in Threads : threads[t].pc = "idle"

Served(kind) ==
    \E t \in Threads : \E k \in 1..Len(threads[t].served) : threads[t].served[k] = kind

Written(record) == record.record_id \in RecordIds(ledger)

C12_AppendsMutuallyExclusive ==
    (AllIdle /\ ~Served("sync")) =>
        \A k \in 1..Len(appended) :
            Contains(local_cache, appended[k]) \/ Len(appended) - k >= 1000

\* C13: no record id is written to the durable sink twice.
C13_NoRecordWrittenTwice ==
    \A i \in 1..Len(ledger) : \A j \in 1..Len(ledger) :
        i # j => ledger[i].record_id # ledger[j].record_id

\* C28: a sync pass that ran alongside logging requests returns success = true:
\* it never asks the cache to remove a record it no longer holds.
C28_ConcurrentPassSucceeds ==
    \A t \in Threads :
        (/\ threads[t].pc = "idle"
         /\ threads[t].served # <<>>
         /\ threads[t].served[Len(threads[t].served)] = "sync") =>
            /\ threads[t].ret.success
            /\ ~Has(threads[t].ret, "error")

-----------------------------------------------------------------------------
(* Properties of the integrity hash *)

\* the names the claim lists
SensitiveNames ==
    {"personal_details", "phone_number", "email", "address",
     "bank_account", "pan_number", "aadhar_number"}

\* two payloads with the same fields that differ, if at all, in the values of
\* fields with a sensitive name
DifferOnlyInSensitive(a, b) ==
    /\ DOMAIN a = DOMAIN b
    /\ \A k \in DOMAIN a : a[k] # b[k] => k \in SensitiveNames

-----------------------------------------------------------------------------
(* Properties of the submission endpoint *)

\* C30: two accepted submissions never have the same application_id.
C30_ApplicationIdsDistinct ==
    \A i \in 1..Len(submissions) : \A j \in 1..Len(submissions) :
        i # j => submissions[i]["application_id"] # submissions[j]["application_id"]

====
